---- MODULE Spec2Model ----
(***************************************************************************)
(* A model of the fabric widget toolkit (its-darsh/fabric): the            *)
(* WorkspaceButton flags, the Hyprland event widgets, Window key bindings, *)
(* the WaylandWindow anchor, the CircularProgressBar / DateTime /          *)
(* AudioStream setters and the widget constructors.                        *)
(*                                                                         *)
(* Each object of the program is a group of variables; every operation is  *)
(* one action.  `last` records the operation that produced the current     *)
(* state (its name, its argument and whether it raised), so that what an   *)
(* operation guarantees can be stated about the state it leaves behind.    *)
(***************************************************************************)
EXTENDS Integers, Sequences, FiniteSets, TLC

VARIABLES
    widget,        \* the widget the program built: the handlers and setters of no other run
    last,          \* the last operation: [op, flag, num, data, raised]
    btn,           \* a WorkspaceButton used on its own
    ws,            \* a Workspaces widget (its fields, its container, its buttons)
    aw,            \* an ActiveWindow widget: [label]
    lang,          \* a Language widget: [keyboard, label]
    conn_ready,    \* whether the Hyprland connection has emitted event::ready
    sent,          \* the commands the last handler sent to the compositor
    events,        \* the number of events the connection has emitted
    keybinding_handlers,  \* Window._keybinding_handlers: keybind -> list of <<callback, handler>>
    key_press_handler,    \* Window._key_press_handler: 0, or the id of the key-press-event connection
    invoked,       \* the callbacks the last key press invoked, in order
    wl,            \* a WaylandWindow: [anchored, anchor]
    cpb,           \* a CircularProgressBar: [value, min_value, max_value]
    dt,            \* a DateTime: [formatters, current_index, interval, repeater_id, label]
    audio,         \* an AudioStream and its parent: [stream_volume, old_vol, max_volume, log]
    ctor,          \* a constructor call in progress: [cls, args, pc, trace, raised]
    built,         \* a GTK widget and the call that builds it: [cls, args, done, native, calls]
    sty,           \* the style providers of a widget: [providers, style_provider, made]
    en,            \* the enum-valued properties of a window, a progress bar and a widget
    ro             \* one declared property of an object and what its getter returns: [prop, value]

\* ------------------------------------------------------------------ bounds

\* workspace ids are 1..MaxWs
MaxWs == 2

\* the list of predefined buttons given to Workspaces has at most MaxPreset buttons
MaxPreset == 1

\* the connection emits at most MaxEvents events
MaxEvents == 4

\* a Window holds at most MaxBindings key bindings
MaxBindings == 3

\* GLib.random_int() draws the handler ids from 0..MaxHandler
MaxHandler == 1

\* a value assigned to WaylandWindow.anchor has at most MaxAnchorLen items
\* (edges of a list, words of a string)
MaxAnchorLen == 2

\* the numbers assigned to a CircularProgressBar are -MaxNum..MaxNum
MaxNum == 2

\* a tuple or list assigned to DateTime.formatters has at most MaxFormatters items
MaxFormatters == 2

\* a constructor call passes at most MaxSupplied keyword arguments
MaxSupplied == 2

\* a widget gets at most MaxStyleCalls calls of set_style
MaxStyleCalls == 3

\* ----------------------------------------------------------------- helpers

\* the variables of each widget
winvars == <<keybinding_handlers, key_press_handler, invoked>>

hyprvars == <<ws, aw, lang, conn_ready, sent, events>>

setvars == <<cpb, dt, audio>>

ctorvars == <<ctor, built, sty, en, ro>>

Range(s) == {s[i] : i \in DOMAIN s}

Min(a, b) == IF a <= b THEN a ELSE b

Max(a, b) == IF a >= b THEN a ELSE b

\* the record kept in `last`: one field per type of argument
Op(name) == [op |-> name, flag |-> FALSE, num |-> 0, data |-> <<>>, raised |-> "none"]

OpFlag(name, f) == [Op(name) EXCEPT !.flag = f]

OpNum(name, n) == [Op(name) EXCEPT !.num = n]

OpData(name, d) == [Op(name) EXCEPT !.data = d]

\* ---------------------------------------------------------- WorkspaceButton
\* A button is [id, fmt, label, active, urgent, empty, classes]: fmt is the
\* lazily evaluated label (_label) and classes the style classes of the widget.

WsIds == 1..MaxWs

\* the three kinds of _label the model builds buttons with: no label, a label
\* showing the workspace id, a label showing the three flags
LabelFormats == {"none", "id", "state"}

\* FormattedString.format(button=self)
FormattedString_format(fmt, b) ==
    IF fmt = "id" THEN <<"id", b.id>>
    ELSE <<"state", b.active, b.urgent, b.empty>>

\* Widget.add_style_class / Widget.remove_style_class with one class name
add_style_class(classes, name) == classes \cup {name}

remove_style_class(classes, name) == classes \ {name}

\* a toggle that never takes a class away
toggle_style_class_adds(classes, name, value) == add_style_class(classes, name)

\* (self.remove_style_class if not value else self.add_style_class)(name)
toggle_style_class(classes, name, value) ==
    IF ~value THEN remove_style_class(classes, name) ELSE add_style_class(classes, name)

do_bake_label(b) ==
    IF b.fmt = "none" THEN b
    ELSE [b EXCEPT !.label = FormattedString_format(b.fmt, b)]

urgent_setter(b, value) ==
    do_bake_label([b EXCEPT !.urgent = value,
                            !.classes = toggle_style_class(@, "urgent", value)])

\* a setter that forgets `if value is True: self.urgent = False`
active_setter_keeps_urgent(b, value) ==
    do_bake_label([b EXCEPT !.active = value,
                            !.classes = toggle_style_class(@, "active", value)])

active_setter(b, value) ==
    LET b1 == [b EXCEPT !.active = value]
        b2 == IF value = TRUE THEN urgent_setter(b1, FALSE) ELSE b1
    IN  do_bake_label([b2 EXCEPT !.classes = toggle_style_class(@, "active", value)])

empty_setter(b, value) ==
    do_bake_label([b EXCEPT !.empty = value,
                            !.classes = toggle_style_class(@, "empty", value)])

\* WorkspaceButton.__init__: the base classes add the given style classes, then
\* the three fields are set and the three setters run
WorkspaceButton_init(id, fmt, style_classes) ==
    LET b0 == [id |-> id, fmt |-> fmt, label |-> <<>>,
               active |-> FALSE, urgent |-> FALSE, empty |-> TRUE,
               classes |-> style_classes]
    IN  empty_setter(urgent_setter(active_setter(b0, FALSE), FALSE), TRUE)

\* the style classes a caller passes to the constructor
CtorStyleClasses == {{}, {"custom"}, {"active", "urgent"}}

InitButton ==
    IF widget = "WorkspaceButton"
    THEN \E id \in WsIds, fmt \in LabelFormats, sc \in CtorStyleClasses :
             btn = WorkspaceButton_init(id, fmt, sc)
    ELSE btn = WorkspaceButton_init(1, "none", {})

\* button.active = v
SetActive ==
    \E v \in BOOLEAN :
        /\ widget = "WorkspaceButton"
        /\ btn' = active_setter(btn, v)
        /\ last' = OpFlag("active", v)
        /\ UNCHANGED <<widget, ctorvars, ws, aw, lang, conn_ready, sent, events, winvars, wl, setvars>>

\* button.urgent = v
SetUrgent ==
    \E v \in BOOLEAN :
        /\ widget = "WorkspaceButton"
        /\ btn' = urgent_setter(btn, v)
        /\ last' = OpFlag("urgent", v)
        /\ UNCHANGED <<widget, ctorvars, ws, aw, lang, conn_ready, sent, events, winvars, wl, setvars>>

\* button.empty = v
SetEmpty ==
    \E v \in BOOLEAN :
        /\ widget = "WorkspaceButton"
        /\ btn' = empty_setter(btn, v)
        /\ last' = OpFlag("empty", v)
        /\ UNCHANGED <<widget, ctorvars, ws, aw, lang, conn_ready, sent, events, winvars, wl, setvars>>


\* --------------------------------------------------------------- Workspaces
\* ws is [active_workspace, buttons, children, heap, buttons_preset,
\* buttons_factory, factory_calls].  A button object is named by how it came to
\* be: <<"preset", i>> is the i-th button of the list given as `buttons`,
\* <<"baked", id>> the button the factory made for workspace id (at most one
\* such button is alive at a time).  heap maps the live objects to their
\* WorkspaceButton state; buttons is the dict _buttons (NoneObj: no entry);
\* children is the container's child list, in order; factory_calls collects the
\* workspace ids the last handler called buttons_factory with.

NoneObj == <<"none", 0>>

NoneWs == 0

PresetObj(i) == <<"preset", i>>

BakedObj(id) == <<"baked", id>>

\* the decimal strings the compositor sends for workspace ids, and int() of them
IdStr == <<"1", "2", "3", "4", "5">>

int(s) == CHOOSE i \in 1..Len(IdStr) : IdStr[i] = s

\* the preset buttons of w, as objects
PresetObjs(w) == {PresetObj(i) : i \in 1..Len(w.buttons_preset)}

\* Gtk.Box.reorder_child(child, position)
reorder_child(children, child, position) ==
    IF child \notin Range(children) THEN children
    ELSE LET rest == SelectSeq(children, LAMBDA x : x # child)
             p    == IF position < 0 THEN Len(rest) ELSE Min(position, Len(rest))
         IN  SubSeq(rest, 1, p) \o <<child>> \o SubSeq(rest, p + 1, Len(rest))

RECURSIVE reorder_from(_, _)
\* the loop of reorder_buttons over the entries of _buttons, by ascending id
reorder_from(w, id) ==
    IF id > MaxWs THEN w
    ELSE IF w.buttons[id] = NoneObj THEN reorder_from(w, id + 1)
    ELSE reorder_from(
             [w EXCEPT !.children = reorder_child(@, w.buttons[id], w.heap[w.buttons[id]].id - 1)],
             id + 1)

reorder_buttons(w) == reorder_from(w, 1)

\* Gtk.Container.add: a widget that is already a child is not added again
container_add(children, o) ==
    IF o \in Range(children) THEN children ELSE Append(children, o)

container_remove(children, o) == SelectSeq(children, LAMBDA x : x # o)

insert_button(w, o) ==
    reorder_buttons([w EXCEPT !.buttons[w.heap[o].id] = o,
                              !.children = container_add(@, o)])

\* remove_button: the entry of the button's id is popped, and the button is
\* destroyed (a destroyed widget leaves its container)
remove_button(w, o) ==
    LET id == w.heap[o].id
    IN  [w EXCEPT !.buttons[id] = NoneObj,
                  !.children = container_remove(@, o),
                  !.heap = [x \in (DOMAIN w.heap) \ {o} |-> w.heap[x]]]

\* default_buttons_factory(workspace_id)
default_buttons_factory(id) == WorkspaceButton_init(id, "id", {})

\* lookup_or_bake_button(workspace_id): the widget after the call, and the
\* button returned (NoneObj for None)
lookup_or_bake_button(w, id) ==
    IF w.buttons[id] # NoneObj THEN [w |-> w, btn |-> w.buttons[id]]
    ELSE IF w.buttons_factory = "default"
    THEN [w |-> [w EXCEPT !.heap = (BakedObj(id) :> default_buttons_factory(id)) @@ @,
                          !.factory_calls = @ \cup {id}],
          btn |-> BakedObj(id)]
    ELSE [w |-> w, btn |-> NoneObj]

RECURSIVE insert_presets(_, _)
\* on_ready: for btn in self._buttons_preset: self.insert_button(btn)
insert_presets(w, i) ==
    IF i > Len(w.buttons_preset) THEN w
    ELSE insert_presets(insert_button(w, PresetObj(i)), i + 1)

\* on_ready: the body of the loop over the open workspaces
ready_open_workspace(w, id) ==
    LET r  == lookup_or_bake_button(w, id)
        o  == r.btn
        w1 == [r.w EXCEPT !.heap[o] = empty_setter(@, FALSE)]
        w2 == IF id = w1.active_workspace
              THEN [w1 EXCEPT !.heap[o] = active_setter(@, TRUE)]
              ELSE w1
    IN  IF o = NoneObj THEN r.w
        ELSE IF o \in PresetObjs(w2) THEN w2
        ELSE insert_button(w2, o)

RECURSIVE ready_open_workspaces(_, _)
ready_open_workspaces(w, open) ==
    IF open = <<>> THEN w
    ELSE ready_open_workspaces(ready_open_workspace(w, Head(open)), Tail(open))

\* Workspaces.on_ready, given the replies to j/workspaces and j/activeworkspace
Workspaces_on_ready(w, open, act) ==
    ready_open_workspaces(insert_presets([w EXCEPT !.active_workspace = act], 1), open)

\* the events' minimum numbers of data fields
MinWorkspaceFields == 1

MinActiveWindowFields == 2

MinCloseWindowFields == 1

MinActiveLayoutFields == 2

Workspaces_on_workspace(w, data) ==
    IF Len(data) < MinWorkspaceFields THEN w
    ELSE LET id == int(data[1])
             w1 == IF w.active_workspace # NoneWs /\ w.buttons[w.active_workspace] # NoneObj
                   THEN [w EXCEPT !.heap[w.buttons[w.active_workspace]] = active_setter(@, FALSE)]
                   ELSE w
             r  == lookup_or_bake_button([w1 EXCEPT !.active_workspace = id], id)
             o  == r.btn
             w2 == [r.w EXCEPT !.heap[o] = active_setter(urgent_setter(@, FALSE), TRUE)]
         IN  IF id = w.active_workspace THEN w
             ELSE IF o = NoneObj THEN r.w
             ELSE IF o \in Range(w2.children) THEN w2
             ELSE insert_button(w2, o)

Workspaces_on_createworkspace(w, data) ==
    IF Len(data) < MinWorkspaceFields THEN w
    ELSE LET r  == lookup_or_bake_button(w, int(data[1]))
             o  == r.btn
             w1 == [r.w EXCEPT !.heap[o] = empty_setter(@, FALSE)]
         IN  IF o = NoneObj THEN r.w
             ELSE IF o \in PresetObjs(w1) THEN w1
             ELSE insert_button(w1, o)

Workspaces_on_destroyworkspace(w, data) ==
    IF Len(data) < MinWorkspaceFields THEN w
    ELSE LET o  == w.buttons[int(data[1])]
             w1 == [w EXCEPT !.heap[o] =
                        empty_setter(urgent_setter(active_setter(@, FALSE), FALSE), TRUE)]
         IN  IF o = NoneObj THEN w
             ELSE IF o \in PresetObjs(w1) THEN w1
             ELSE remove_button(w1, o)

\* Workspaces.on_urgent past its length check, given the workspace the reply to
\* j/clients names for the client (NoneWs: the client is not in the reply)
Workspaces_mark_urgent(w, urgent_workspace) ==
    IF urgent_workspace = NoneWs THEN w
    ELSE IF w.buttons[urgent_workspace] = NoneObj THEN w
    ELSE [w EXCEPT !.heap[w.buttons[urgent_workspace]] = urgent_setter(@, TRUE)]

\* the lists of predefined buttons, by the buttons' workspace ids
PresetLists == UNION {[1..n -> WsIds] : n \in 0..MaxPreset}

Workspaces_init(preset, factory) ==
    [active_workspace |-> NoneWs,
     buttons          |-> [id \in WsIds |-> NoneObj],
     children         |-> <<>>,
     heap             |-> [o \in {PresetObj(i) : i \in 1..Len(preset)} |->
                              WorkspaceButton_init(preset[o[2]], "none", {})],
     buttons_preset   |-> preset,
     buttons_factory  |-> factory,
     factory_calls    |-> {}]

\* ------------------------------------------------- ActiveWindow and Language

\* window classes and titles; "" is the title of no window
WinClasses == {"term"}

WinTitles == {"", "vim"}

\* the default formatter of ActiveWindow:
\* 'Desktop' if not win_title else truncate(win_title, 42)
ActiveWindow_format(win_class, win_title) ==
    IF win_title = "" THEN "Desktop" ELSE win_title

\* keyboards and layouts
Keyboards == {"kb1", "kb2"}

Layouts == {"en", "fr"}

\* re.match(self.keyboard, keyboard) for the patterns of the model
re_match(pattern, keyboard) == pattern = ".*" \/ pattern = keyboard

\* the data of a workspace, createworkspace or destroyworkspace event
WorkspaceEventData == {<<>>} \cup {<<IdStr[i]>> : i \in WsIds}

\* the data of an urgent or closewindow event: a window address
AddressEventData == {<<>>, <<"a1b2">>}

ActiveWindowEventData ==
    {<<>>} \cup {<<c>> : c \in WinClasses} \cup {<<c, t>> : c \in WinClasses, t \in WinTitles}

ActiveLayoutEventData ==
    {<<>>} \cup {<<k>> : k \in Keyboards} \cup {<<k, l>> : k \in Keyboards, l \in Layouts}

\* ascending ids of a set of workspace ids
RECURSIVE SortedIds(_)
SortedIds(S) ==
    IF S = {} THEN <<>>
    ELSE LET m == CHOOSE x \in S : \A y \in S : x <= y
         IN  <<m>> \o SortedIds(S \ {m})

\* the widget as a handler starts: no call of the factory by this handler yet
Handling(w) == [w EXCEPT !.factory_calls = {}]

\* the connection emits one more event
Emit == events < MaxEvents /\ events' = events + 1

HyprWidgets == {"Workspaces", "ActiveWindow", "Language"}

InitHypr ==
    /\ IF widget = "Workspaces"
       THEN \E preset \in PresetLists, factory \in {"default", "none"} :
                ws = Workspaces_init(preset, factory)
       ELSE ws = Workspaces_init(<<>>, "default")
    /\ aw = [label |-> ""]
    /\ IF widget = "Language"
       THEN \E k \in {".*", "kb1"} : lang = [keyboard |-> k, label |-> ""]
       ELSE lang = [keyboard |-> ".*", label |-> ""]
    /\ conn_ready = FALSE
    /\ sent = <<>>
    /\ events = 0

\* ActiveWindow.do_initialize, given the reply to j/activewindow
do_initialize(a, win_class, win_title) ==
    [a EXCEPT !.label = ActiveWindow_format(win_class, win_title)]

\* Language.do_initialize, given the keyboards of the reply to j/devices (each
\* with the active keymap l): the first keyboard the pattern matches sets the label
Language_do_initialize(g, kbs, l) ==
    IF \E k \in kbs : re_match(g.keyboard, k) THEN [g EXCEPT !.label = l] ELSE g

\* event::ready: the on_ready of the widget
on_ready ==
    /\ widget \in HyprWidgets
    /\ Emit
    /\ ~conn_ready
    /\ conn_ready' = TRUE
    /\ \/ /\ widget = "Workspaces"
          /\ \E open \in (SUBSET WsIds) \ {{}} : \E act \in open :
                 ws' = Workspaces_on_ready(Handling(ws), SortedIds(open), act)
          /\ sent' = <<"j/workspaces", "j/activeworkspace">>
          /\ UNCHANGED <<aw, lang>>
       \/ /\ widget = "ActiveWindow"
          /\ \E c \in WinClasses, t \in WinTitles : aw' = do_initialize(aw, c, t)
          /\ sent' = <<"j/activewindow">>
          /\ UNCHANGED <<ws, lang>>
       \/ /\ widget = "Language"
          /\ \E kbs \in SUBSET Keyboards, l \in Layouts :
                 lang' = Language_do_initialize(lang, kbs, l)
          /\ sent' = <<"j/devices">>
          /\ UNCHANGED <<ws, aw>>
    /\ last' = Op("ready")
    /\ UNCHANGED <<widget, ctorvars, btn, winvars, wl, setvars>>

on_workspace ==
    \E data \in WorkspaceEventData :
        /\ widget = "Workspaces"
        /\ Emit
        /\ ws' = Workspaces_on_workspace(Handling(ws), data)
        /\ sent' = <<>>
        /\ last' = OpData("workspace", data)
        /\ UNCHANGED <<widget, ctorvars, btn, aw, lang, conn_ready, winvars, wl, setvars>>

on_createworkspace ==
    \E data \in WorkspaceEventData :
        /\ widget = "Workspaces"
        /\ Emit
        /\ ws' = Workspaces_on_createworkspace(Handling(ws), data)
        /\ sent' = <<>>
        /\ last' = OpData("createworkspace", data)
        /\ UNCHANGED <<widget, ctorvars, btn, aw, lang, conn_ready, winvars, wl, setvars>>

on_destroyworkspace ==
    \E data \in WorkspaceEventData :
        /\ widget = "Workspaces"
        /\ Emit
        /\ ws' = Workspaces_on_destroyworkspace(Handling(ws), data)
        /\ sent' = <<>>
        /\ last' = OpData("destroyworkspace", data)
        /\ UNCHANGED <<widget, ctorvars, btn, aw, lang, conn_ready, winvars, wl, setvars>>

on_urgent ==
    \E data \in AddressEventData :
        /\ widget = "Workspaces"
        /\ Emit
        /\ IF Len(data) < MinWorkspaceFields
           THEN /\ ws' = Handling(ws)
                /\ sent' = <<>>
           ELSE /\ sent' = <<"j/clients">>
                /\ \E urgent_workspace \in WsIds \cup {NoneWs} :
                       ws' = Workspaces_mark_urgent(Handling(ws), urgent_workspace)
        /\ last' = OpData("urgent", data)
        /\ UNCHANGED <<widget, ctorvars, btn, aw, lang, conn_ready, winvars, wl, setvars>>

\* a handler that does not check the length of the data
on_closewindow_unchecked ==
    \E data \in AddressEventData :
        /\ widget = "ActiveWindow"
        /\ Emit
        /\ sent' = <<"j/activewindow">>
        /\ \E c \in WinClasses, t \in WinTitles : aw' = do_initialize(aw, c, t)
        /\ last' = OpData("closewindow", data)
        /\ UNCHANGED <<widget, ctorvars, btn, ws, lang, conn_ready, winvars, wl, setvars>>

on_closewindow ==
    \E data \in AddressEventData :
        /\ widget = "ActiveWindow"
        /\ Emit
        /\ IF Len(data) < MinCloseWindowFields
           THEN /\ aw' = aw
                /\ sent' = <<>>
           ELSE /\ sent' = <<"j/activewindow">>
                /\ \E c \in WinClasses, t \in WinTitles : aw' = do_initialize(aw, c, t)
        /\ last' = OpData("closewindow", data)
        /\ UNCHANGED <<widget, ctorvars, btn, ws, lang, conn_ready, winvars, wl, setvars>>

ActiveWindow_on_activewindow(a, data) ==
    IF Len(data) < MinActiveWindowFields THEN a
    ELSE [a EXCEPT !.label = ActiveWindow_format(data[1], data[2])]

on_activewindow ==
    \E data \in ActiveWindowEventData :
        /\ widget = "ActiveWindow"
        /\ Emit
        /\ aw' = ActiveWindow_on_activewindow(aw, data)
        /\ sent' = <<>>
        /\ last' = OpData("activewindow", data)
        /\ UNCHANGED <<widget, ctorvars, btn, ws, lang, conn_ready, winvars, wl, setvars>>

Language_on_activelayout(l, data) ==
    IF Len(data) < MinActiveLayoutFields THEN l
    ELSE IF re_match(l.keyboard, data[1]) THEN [l EXCEPT !.label = data[2]]
    ELSE l

on_activelayout ==
    \E data \in ActiveLayoutEventData :
        /\ widget = "Language"
        /\ Emit
        /\ lang' = Language_on_activelayout(lang, data)
        /\ sent' = <<>>
        /\ last' = OpData("activelayout", data)
        /\ UNCHANGED <<widget, ctorvars, btn, ws, aw, conn_ready, winvars, wl, setvars>>

\* ------------------------------------------------------------------- Window
\* keybinding_handlers is the dict _keybinding_handlers: a function from the
\* keybind strings that have an entry to the list of <<callback, handler>> pairs.

Keybinds == {"Ctrl w", "Alt x"}

Callbacks == {"cb1", "cb2"}

HandlerIds == 0..MaxHandler

\* the references remove_keybinding takes: a handler id, a callback or a
\* keybind string
References ==
    [kind : {"int"}, num : HandlerIds, str : {""}]
        \cup [kind : {"callable"}, num : {0}, str : Callbacks]
        \cup [kind : {"str"}, num : {0}, str : Keybinds]

\* `reference in bindref` for a pair bindref = (callback, handler)
reference_in(reference, bindref) ==
    \/ reference.kind = "callable" /\ reference.str = bindref[1]
    \/ reference.kind = "int" /\ reference.num = bindref[2]

\* list.remove(x): the first element equal to x leaves the list
list_remove(l, x) ==
    LET i == CHOOSE j \in 1..Len(l) : l[j] = x /\ \A k \in 1..(j - 1) : l[k] # x
    IN  SubSeq(l, 1, i - 1) \o SubSeq(l, i + 1, Len(l))

RECURSIVE remove_matching(_, _, _)
\* `for bindref in kbd: if reference in bindref: kbd.remove(bindref)`: the loop
\* reads kbd[i] (1-based here) and moves on to i + 1 whether or not the list
\* has just lost an element
remove_matching(kbd, i, reference) ==
    IF i > Len(kbd) THEN kbd
    ELSE IF reference_in(reference, kbd[i])
    THEN remove_matching(list_remove(kbd, kbd[i]), i + 1, reference)
    ELSE remove_matching(kbd, i + 1, reference)

\* the number of bindings of all entries
RECURSIVE CountBindings(_, _)
CountBindings(h, keys) ==
    IF keys = {} THEN 0
    ELSE LET k == CHOOSE x \in keys : TRUE
         IN  Len(h[k]) + CountBindings(h, keys \ {k})

InitWindow ==
    /\ keybinding_handlers = <<>>
    /\ key_press_handler = 0
    /\ invoked = <<>>

\* add_keybinding(keybind, callback), with the handler GLib.random_int() drew
add_keybinding ==
    \E keybind \in Keybinds, callback \in Callbacks, handler \in HandlerIds :
        /\ widget = "Window"
        /\ CountBindings(keybinding_handlers, DOMAIN keybinding_handlers) < MaxBindings
        /\ LET h == IF keybind \in DOMAIN keybinding_handlers
                    THEN keybinding_handlers
                    ELSE (keybind :> <<>>) @@ keybinding_handlers
           IN  keybinding_handlers' = [h EXCEPT ![keybind] = Append(@, <<callback, handler>>)]
        /\ key_press_handler' = IF key_press_handler = 0 THEN 1 ELSE key_press_handler
        /\ invoked' = <<>>
        /\ last' = [OpData("add_keybinding", <<keybind, callback>>) EXCEPT !.num = handler]
        /\ UNCHANGED <<widget, ctorvars, btn, ws, aw, lang, conn_ready, sent, events, wl, setvars>>

\* do_post_kebinding_removal: the dict without its empty entries
drop_empty(h) == [k \in {x \in DOMAIN h : h[x] # <<>>} |-> h[k]]

\* remove_keybinding(reference) up to do_post_kebinding_removal
remove_from(h, reference) ==
    IF reference.kind \in {"int", "callable"}
    THEN [k \in DOMAIN h |-> remove_matching(h[k], 1, reference)]
    ELSE [k \in (DOMAIN h) \ {reference.str} |-> h[k]]

\* remove_keybinding(reference).  With no entry left the handler of
\* key-press-event is disconnected; disconnect_by_func raises when it is not
\* connected.
remove_keybinding ==
    \E reference \in References :
        LET h == drop_empty(remove_from(keybinding_handlers, reference))
        IN  /\ widget = "Window"
            /\ keybinding_handlers' = h
            /\ key_press_handler' = IF DOMAIN h = {} THEN 0 ELSE key_press_handler
            /\ invoked' = <<>>
            /\ last' = [op |-> "remove_keybinding", flag |-> FALSE,
                        num |-> reference.num, data |-> <<reference.kind, reference.str>>,
                        raised |-> IF DOMAIN h = {} /\ key_press_handler = 0
                                   THEN "TypeError" ELSE "none"]
            /\ UNCHANGED <<widget, ctorvars, btn, ws, aw, lang, conn_ready, sent, events, wl, setvars>>

\* do_handle_key_press_event for a key press that spells keybind; it runs only
\* while it is connected to key-press-event
do_handle_key_press_event ==
    \E keybind \in Keybinds :
        /\ widget = "Window"
        /\ key_press_handler # 0
        /\ invoked' = IF keybind \in DOMAIN keybinding_handlers
                      THEN [i \in 1..Len(keybinding_handlers[keybind]) |->
                               keybinding_handlers[keybind][i][1]]
                      ELSE <<>>
        /\ last' = OpData("key_press", <<keybind>>)
        /\ UNCHANGED <<widget, ctorvars, btn, ws, aw, lang, conn_ready, sent, events,
                       keybinding_handlers, key_press_handler, wl, setvars>>

\* ------------------------------------------------------------ WaylandWindow
\* wl.anchored is the layer shell's anchor flag of each edge
\* (GtkLayerShell.get_anchor), wl.anchor the field _anchor.

\* the edges, in the order the getter and the setter go through them
EdgeOrder == <<"TOP", "RIGHT", "BOTTOM", "LEFT">>

Edges == Range(EdgeOrder)

\* the items of the lists assigned to anchor: the edges, and a string, which is
\* no GtkLayerShell.Edge
AnchorListItems == Edges \cup {"top"}

\* the words of the strings assigned to anchor, and str.lower() of each
AnchorWords == {"top", "LEFT", "Right", "bottom", "topleft", "center"}

lower(word) ==
    CASE word = "LEFT" -> "left"
      [] word = "Right" -> "right"
      [] OTHER -> word

\* extract_anchor_values(string): the words that are left, right, top or
\* bottom (the pattern matches whole words only), by their first letter
extract_anchor_values(words) ==
    {w \in {lower(words[i]) : i \in DOMAIN words} : w \in {"left", "right", "top", "bottom"}}

\* extract_edges_from_string(string), the string given as its list of words
extract_edges_from_string(words) ==
    LET anchor_values == extract_anchor_values([i \in DOMAIN words |-> lower(words[i])])
    IN  [e \in Edges |->
            CASE e = "TOP" -> "top" \in anchor_values
              [] e = "RIGHT" -> "right" \in anchor_values
              [] e = "BOTTOM" -> "bottom" \in anchor_values
              [] e = "LEFT" -> "left" \in anchor_values]

\* GtkLayerShell.set_anchor(self, edge, anchor_to_edge)
set_anchor(anchored, edge, to_edge) == [anchored EXCEPT ![edge] = to_edge]

RECURSIVE anchor_edges(_, _, _)
\* the loop of the setter over the four edges, for a list or tuple of edges
anchor_edges(anchored, value, i) ==
    IF i > Len(EdgeOrder) THEN anchored
    ELSE LET edge == EdgeOrder[i]
             a1   == IF edge \notin Range(value)
                     THEN set_anchor(anchored, edge, FALSE)
                     ELSE anchored
         IN  anchor_edges(set_anchor(a1, edge, TRUE), value, i + 1)

\* the anchor getter
anchor_getter(w) == SelectSeq(EdgeOrder, LAMBDA e : w.anchored[e])

\* the anchor setter with a list or tuple
anchor_setter_list(w, value) ==
    IF \A i \in DOMAIN value : value[i] \in Edges
    THEN [w EXCEPT !.anchor = value, !.anchored = anchor_edges(@, value, 1)]
    ELSE [w EXCEPT !.anchor = value]

\* the anchor setter with a string
anchor_setter_str(w, words) ==
    [w EXCEPT !.anchor = words, !.anchored = extract_edges_from_string(words)]

AnchorLists == UNION {[1..n -> AnchorListItems] : n \in 0..MaxAnchorLen}

AnchorStrings == UNION {[1..n -> AnchorWords] : n \in 0..MaxAnchorLen}

\* WaylandWindow.__init__ with anchor left at its default "": the layer shell
\* starts with no edge anchored, and self.anchor = anchor runs
InitWayland ==
    wl = anchor_setter_str([anchored |-> [e \in Edges |-> FALSE], anchor |-> <<>>], <<>>)

\* window.anchor = [edge, ...]
SetAnchorList ==
    \E value \in AnchorLists :
        /\ widget = "WaylandWindow"
        /\ wl' = anchor_setter_list(wl, value)
        /\ last' = OpData("anchor_list", value)
        /\ UNCHANGED <<widget, ctorvars, btn, hyprvars, winvars, setvars>>

\* window.anchor = "word ..."
SetAnchorString ==
    \E words \in AnchorStrings :
        /\ widget = "WaylandWindow"
        /\ wl' = anchor_setter_str(wl, words)
        /\ last' = OpData("anchor_str", words)
        /\ UNCHANGED <<widget, ctorvars, btn, hyprvars, winvars, setvars>>

\* ------------------------------------------------------ CircularProgressBar
\* The floats of the bar are modelled by the integers -MaxNum..MaxNum.

Nums == (0 - MaxNum)..MaxNum

\* fabric.utils.helpers.clamp(value, min_value, max_value)
clamp(value, min_value, max_value) == Max(min_value, Min(value, max_value))

\* the value setter
value_setter(b, value) == [b EXCEPT !.value = value]

\* the min_value setter
min_value_setter(b, value) == [b EXCEPT !.min_value = clamp(value, b.min_value, b.max_value)]

\* a max_value setter that accepts every value
max_value_accepts_zero(value) == FALSE

\* whether the max_value setter raises ValueError
max_value_raises(value) == value = 0

\* the max_value setter: the bar after it; the bar is as before when it raises
max_value_setter(b, value) ==
    IF max_value_raises(value) THEN b ELSE [b EXCEPT !.max_value = value]

\* the fields of CircularProgressBar.__init__ and its three numeric
\* assignments, for arguments with which it completes (max_value # 0)
CircularProgressBar_init(value, min_value, max_value) ==
    max_value_setter(
        min_value_setter(
            value_setter([value |-> 1, min_value |-> 0, max_value |-> 1], value),
            min_value),
        max_value)

\* a bar built with some arguments; last.data keeps them
InitCpb ==
    IF widget = "CircularProgressBar"
    THEN \E value \in Nums, min_value \in Nums, max_value \in Nums \ {0} :
            /\ cpb = CircularProgressBar_init(value, min_value, max_value)
            /\ last = OpData("init", <<value, min_value, max_value>>)
    ELSE /\ cpb = CircularProgressBar_init(1, 0, 1)
         /\ last = Op("init")

\* bar.value = v
SetValue ==
    \E v \in Nums :
        /\ widget = "CircularProgressBar"
        /\ cpb' = value_setter(cpb, v)
        /\ last' = OpNum("value", v)
        /\ UNCHANGED <<widget, ctorvars, btn, hyprvars, winvars, wl, dt, audio>>

\* bar.min_value = v
SetMinValue ==
    \E v \in Nums :
        /\ widget = "CircularProgressBar"
        /\ cpb' = min_value_setter(cpb, v)
        /\ last' = OpNum("min_value", v)
        /\ UNCHANGED <<widget, ctorvars, btn, hyprvars, winvars, wl, dt, audio>>

\* bar.max_value = v
SetMaxValue ==
    \E v \in Nums :
        /\ widget = "CircularProgressBar"
        /\ cpb' = max_value_setter(cpb, v)
        /\ last' = [OpNum("max_value", v) EXCEPT
                        !.raised = IF max_value_raises(v) THEN "ValueError" ELSE "none"]
        /\ UNCHANGED <<widget, ctorvars, btn, hyprvars, winvars, wl, dt, audio>>

\* ----------------------------------------------------------------- DateTime
\* A value assigned to formatters is [kind, items]: a tuple or list of
\* strings, one string, or a value that is neither (None, a set, a generator).
\* The label is the formatter it was rendered with: time.strftime fills in the
\* clock's time.

FormatStrings == {"%H:%M", "%A"}

DefaultFormatters == <<"%I:%M %p", "%A", "%m-%d-%Y">>

FormatterValues ==
    {[kind |-> "tuple", items |-> t] : t \in UNION {[1..n -> FormatStrings] : n \in 0..MaxFormatters}}
    \cup {[kind |-> "str", items |-> <<f>>] : f \in FormatStrings}
    \cup {[kind |-> "other", items |-> <<>>]}

Intervals == {0, 500, 1000}

\* no GLib source
NoSource == 0

\* the formatters setter
formatters_setter(d, value) ==
    LET given == IF value.kind \in {"tuple", "str"} THEN value.items ELSE d.formatters
    IN  [d EXCEPT !.formatters = IF Len(given) < 1 THEN DefaultFormatters ELSE given]

\* do_check_invalid_index(index), for the formatters of d
do_check_invalid_index(d, index) == (index < 0) \/ (index > (Len(d.formatters) - 1))

\* whether do_format raises IndexError: _formatters[_current_index] of a
\* Python tuple (the index is never negative)
do_format_raises(d) == d.current_index >= Len(d.formatters)

\* do_update_label, where do_format does not raise
do_update_label(d) ==
    [d EXCEPT !.label = <<"strftime", d.formatters[d.current_index + 1]>>]

\* fabric.utils.helpers.invoke_repeater(interval, callback): the id of the new
\* GLib source
invoke_repeater(d) == 1

\* the interval setter: the fields are assigned and the repeater is replaced
\* before do_update_label runs, and stay so when it raises
interval_setter(d, value) ==
    LET d1 == [d EXCEPT !.interval = value, !.repeater_id = invoke_repeater(d)]
    IN  IF do_format_raises(d1) THEN d1 ELSE do_update_label(d1)

\* DateTime.__init__
DateTime_init(formatters, interval) ==
    interval_setter(
        formatters_setter(
            [formatters |-> <<>>, current_index |-> 0, interval |-> interval,
             repeater_id |-> NoSource, label |-> <<>>],
            formatters),
        interval)

\* do_cycle_next
do_cycle_next(d) ==
    LET index == d.current_index + 1
    IN  do_update_label([d EXCEPT !.current_index =
            IF do_check_invalid_index(d, index) THEN 0 ELSE index])

\* do_cycle_prev
do_cycle_prev(d) ==
    LET index == d.current_index - 1
    IN  do_update_label([d EXCEPT !.current_index =
            IF do_check_invalid_index(d, index) THEN Len(d.formatters) - 1 ELSE index])

InitDateTime ==
    IF widget = "DateTime"
    THEN \E f \in FormatterValues, i \in Intervals : dt = DateTime_init(f, i)
    ELSE dt = DateTime_init([kind |-> "tuple", items |-> DefaultFormatters], 1000)

\* datetime.formatters = value
SetFormatters ==
    \E value \in FormatterValues :
        /\ widget = "DateTime"
        /\ dt' = formatters_setter(dt, value)
        /\ last' = [OpData("formatters", value.items) EXCEPT !.flag = (value.kind # "other")]
        /\ UNCHANGED <<widget, ctorvars, btn, hyprvars, winvars, wl, cpb, audio>>

\* datetime.interval = value
SetInterval ==
    \E value \in Intervals :
        /\ widget = "DateTime"
        /\ dt' = interval_setter(dt, value)
        /\ last' = [OpNum("interval", value) EXCEPT
                        !.raised = IF do_format_raises(dt) THEN "IndexError" ELSE "none"]
        /\ UNCHANGED <<widget, ctorvars, btn, hyprvars, winvars, wl, cpb, audio>>

MouseButtons == {1, 2, 3}

\* a button-press-event: do_handle_press
do_handle_press ==
    \E button \in MouseButtons :
        /\ widget = "DateTime"
        /\ dt' = CASE button = 1 -> do_cycle_next(dt)
                   [] button = 3 -> do_cycle_prev(dt)
                   [] OTHER -> dt
        /\ last' = OpNum("press", button)
        /\ UNCHANGED <<widget, ctorvars, btn, hyprvars, winvars, wl, cpb, audio>>

ScrollDirections == {"UP", "DOWN", "LEFT", "RIGHT"}

\* a scroll-event: do_handle_scroll
do_handle_scroll ==
    \E direction \in ScrollDirections :
        /\ widget = "DateTime"
        /\ dt' = CASE direction = "UP" -> do_cycle_next(dt)
                   [] direction = "DOWN" -> do_cycle_prev(dt)
                   [] OTHER -> dt
        /\ last' = OpData("scroll", <<direction>>)
        /\ UNCHANGED <<widget, ctorvars, btn, hyprvars, winvars, wl, cpb, audio>>

\* -------------------------------------------------------------- AudioStream
\* stream_volume is the volume of the mixer stream (Cvc.MixerStream), in the
\* mixer's units; max_volume is the parent Audio service's limit, in percent;
\* log lists what the last operation did to the stream and the signals it emitted.

\* Cvc.MixerControl.get_vol_max_norm(): the mixer's volume of 100 percent
VolMaxNorm == 65536

Volumes == {-10, 0, 30, 100, 150}

MaxVolumes == {0, 50, 100, 150}

\* the volume getter (a float in the code, here its whole part)
volume_getter(a) == (a.stream_volume * 100) \div VolMaxNorm

\* a volume setter without the upper limit
volume_setter_unlimited(a, value) ==
    LET v0 == IF value < 0 THEN 0 ELSE value
    IN  [a EXCEPT !.old_vol = a.stream_volume,
                  !.stream_volume = (v0 * VolMaxNorm) \div 100,
                  !.log = <<"set_volume", "push_volume", "changed">>]

\* the volume setter; int() of a value that is never negative is \div
volume_setter(a, value) ==
    LET v0 == IF value < 0 THEN 0 ELSE value
        v1 == IF v0 > a.max_volume THEN a.max_volume ELSE v0
    IN  [a EXCEPT !.old_vol = a.stream_volume,
                  !.stream_volume = (v1 * VolMaxNorm) \div 100,
                  !.log = <<"set_volume", "push_volume", "changed">>]

\* AudioStream.notifier(name): notify(name), then changed
notifier(a) == [a EXCEPT !.log = <<"notify", "changed">>]

\* Audio(max_volume = 100) and a stream the mixer reports at some volume
InitAudio ==
    IF widget = "AudioStream"
    THEN \E v \in Volumes \cap Nat :
            audio = [stream_volume |-> (v * VolMaxNorm) \div 100, old_vol |-> 0,
                     max_volume |-> 100, log |-> <<>>]
    ELSE audio = [stream_volume |-> 0, old_vol |-> 0, max_volume |-> 100, log |-> <<>>]

\* stream.volume = value
SetVolume ==
    \E value \in Volumes :
        /\ widget = "AudioStream"
        /\ audio' = volume_setter(audio, value)
        /\ last' = OpNum("volume", value)
        /\ UNCHANGED <<widget, ctorvars, btn, hyprvars, winvars, wl, cpb, dt>>

\* audio.max_volume = value
SetMaxVolume ==
    \E value \in MaxVolumes :
        /\ widget = "AudioStream"
        /\ audio' = [audio EXCEPT !.max_volume = value, !.log = <<>>]
        /\ last' = OpNum("max_volume_limit", value)
        /\ UNCHANGED <<widget, ctorvars, btn, hyprvars, winvars, wl, cpb, dt>>

\* the mixer changes the volume of the stream (another mixer client, the
\* hardware): notify::volume runs the notifier
NotifyVolume ==
    \E v \in Volumes \cap Nat :
        /\ widget = "AudioStream"
        /\ audio' = notifier([audio EXCEPT !.stream_volume = (v * VolMaxNorm) \div 100])
        /\ last' = OpNum("notify::volume", v)
        /\ UNCHANGED <<widget, ctorvars, btn, hyprvars, winvars, wl, cpb, dt>>

\* ------------------------------------------------------------- constructors
\* A constructor call runs the statements of __init__ one after the other;
\* ctor.trace lists what it has done so far: <<"base", initializer>>,
\* <<"fields", class>>, <<"call", function>>, <<"set", property>> for a
\* property setter and <<"connect", signal>> for a signal handler.

CtorClasses == {"CircularProgressBar", "DateTime", "WorkspaceButton", "WaylandWindow"}

\* the arguments that decide what the constructors do: whether a monitor is
\* given, visible, all_visible, and max_value
CtorArgs == [monitor : BOOLEAN, visible : BOOLEAN, all_visible : BOOLEAN, max_value : {0, 1}]

\* the parameters with a property setter, in the order of the signature
DeclaredOrder(cls) ==
    CASE cls = "CircularProgressBar" ->
            <<"value", "min_value", "max_value", "line_width", "line_style", "pie">>
      [] cls = "DateTime" -> <<"formatters", "interval">>
      [] cls = "WorkspaceButton" -> <<>>
      [] cls = "WaylandWindow" ->
            <<"layer", "anchor", "margin", "exclusivity", "keyboard_mode", "pass_through", "monitor">>

\* the statements of CircularProgressBar.__init__
CircularProgressBar_statements(args) ==
    << <<"base", "Gtk.DrawingArea.__init__">>, <<"base", "Widget.__init__">>,
       <<"fields", "CircularProgressBar">>,
       <<"set", "value">>, <<"set", "min_value">>, <<"set", "max_value">>,
       <<"set", "line_width">>, <<"set", "line_style">>, <<"set", "pie">>,
       <<"connect", "draw">> >>

\* the statements of DateTime.__init__
DateTime_statements(args) ==
    << <<"base", "Button.__init__">>, <<"call", "add_events">>, <<"fields", "DateTime">>,
       <<"set", "formatters">>, <<"set", "interval">>,
       <<"connect", "button-press-event">>, <<"connect", "scroll-event">> >>

\* the statements of WorkspaceButton.__init__
WorkspaceButton_statements(args) ==
    << <<"base", "Button.__init__">>, <<"fields", "WorkspaceButton">>,
       <<"set", "active">>, <<"set", "urgent">>, <<"set", "empty">> >>

\* the statements of WaylandWindow.__init__
WaylandWindow_statements(args) ==
    << <<"base", "Window.__init__">>, <<"fields", "WaylandWindow">>,
       <<"call", "GtkLayerShell.init_for_window">>, <<"call", "GtkLayerShell.set_namespace">>,
       <<"connect", "notify::title">> >>
    \o (IF args.monitor THEN << <<"set", "monitor">> >> ELSE <<>>)
    \o << <<"set", "layer">>, <<"set", "anchor">>, <<"set", "margin">>,
          <<"set", "keyboard_mode">>, <<"set", "exclusivity">>, <<"set", "pass_through">> >>
    \o (IF args.all_visible THEN << <<"call", "show_all">> >>
        ELSE IF args.visible THEN << <<"call", "show">> >> ELSE <<>>)

statements(cls, args) ==
    CASE cls = "CircularProgressBar" -> CircularProgressBar_statements(args)
      [] cls = "DateTime" -> DateTime_statements(args)
      [] cls = "WorkspaceButton" -> WorkspaceButton_statements(args)
      [] cls = "WaylandWindow" -> WaylandWindow_statements(args)

\* a do_handle_post_show_request that assigns nothing
do_handle_post_show_request_only_warns(trace) == trace

\* WaylandWindow.do_handle_post_show_request: it assigns pass_through again
do_handle_post_show_request(trace) == Append(trace, <<"set", "pass_through">>)

\* WaylandWindow.show and show_all
WaylandWindow_show(trace, call) == do_handle_post_show_request(Append(trace, call))

\* whether a statement raises: the max_value setter with 0
statement_raises(stmt, args) == stmt = <<"set", "max_value">> /\ max_value_raises(args.max_value)

\* the trace after a statement
execute(cls, trace, stmt) ==
    IF cls = "WaylandWindow" /\ stmt \in {<<"call", "show">>, <<"call", "show_all">>}
    THEN WaylandWindow_show(trace, stmt)
    ELSE Append(trace, stmt)

InitCtor ==
    IF widget = "Constructor"
    THEN \E cls \in CtorClasses, args \in CtorArgs :
            ctor = [cls |-> cls, args |-> args, pc |-> 1, trace |-> <<>>, raised |-> FALSE]
    ELSE ctor = [cls |-> "DateTime",
                 args |-> [monitor |-> FALSE, visible |-> TRUE, all_visible |-> FALSE, max_value |-> 1],
                 pc |-> 1, trace |-> <<>>, raised |-> FALSE]

\* whether the constructor has returned
Constructed(c) == ~c.raised /\ c.pc > Len(statements(c.cls, c.args))

\* the next statement of the constructor
ConstructorStep ==
    /\ widget = "Constructor"
    /\ ~ctor.raised
    /\ ctor.pc <= Len(statements(ctor.cls, ctor.args))
    /\ LET stmt == statements(ctor.cls, ctor.args)[ctor.pc]
       IN  /\ ctor' = IF statement_raises(stmt, ctor.args)
                      THEN [ctor EXCEPT !.raised = TRUE,
                                        !.trace = Append(@, stmt)]
                      ELSE [ctor EXCEPT !.pc = @ + 1,
                                        !.trace = execute(ctor.cls, @, stmt)]
           /\ last' = OpData("statement", stmt)
    /\ UNCHANGED <<widget, built, sty, en, ro, btn, hyprvars, winvars, wl, setvars>>

\* -------------------------------------------------- Widget, Entry, Button...
\* Python values are written as strings: "None", "True", "False", numbers,
\* strings, "()" for an empty list, "Gtk.Align.FILL" for the enum member.
\* built.native is the state of the GTK widget, built.calls the native setters
\* called on it, in order, each <<setter, value>>.

WidgetClasses == {"Widget", "Entry", "Fixed", "Button", "EventBox", "Window"}

\* the keyword parameters of Widget.__init__, in a fixed order
WidgetParams ==
    <<"name", "visible", "all_visible", "style", "style_classes", "tooltip_text",
      "tooltip_markup", "h_align", "v_align", "h_expand", "v_expand", "size">>

\* the parameters a class adds
OwnParams(cls) ==
    CASE cls = "Entry" -> <<"text", "placeholder", "editable", "password", "max_length">>
      [] cls = "Button" -> <<"label">>
      [] OTHER -> <<>>

Params(cls) == OwnParams(cls) \o WidgetParams

\* the default of each parameter in the signatures
Default(p) ==
    CASE p \in {"visible", "editable"} -> "True"
      [] p \in {"all_visible", "h_expand", "v_expand", "password"} -> "False"
      [] p = "max_length" -> "0"
      [] OTHER -> "None"

\* the values a caller passes for a parameter, other than its default
Supplied(p) ==
    CASE p = "name" -> {"", "bar"}
      [] p = "visible" -> {"False"}
      [] p \in {"all_visible", "h_expand", "v_expand", "password"} -> {"True"}
      [] p = "editable" -> {"False"}
      [] p = "style" -> {"", "color: red;"}
      [] p = "style_classes" -> {"()", "a"}
      [] p \in {"tooltip_text", "text", "label"} -> {"", "abc"}
      [] p \in {"tooltip_markup", "placeholder"} -> {"abc"}
      [] p \in {"h_align", "v_align"} -> {"Gtk.Align.FILL", "center"}
      [] p \in {"size", "max_length"} -> {"5"}

\* bool(value)
truthy(value) == value \notin {"None", "False", "", "()", "0", "Gtk.Align.FILL"}

\* not value, of a bool
negate(value) == IF value = "True" THEN "False" ELSE "True"

RECURSIVE ArgsFrom(_, _, _)
\* the argument lists over the parameters ps[i..] with at most k of them passed
ArgsFrom(ps, i, k) ==
    IF i > Len(ps) THEN {<<>>}
    ELSE {<<Default(ps[i])>> \o rest : rest \in ArgsFrom(ps, i + 1, k)}
         \cup (IF k = 0 THEN {}
               ELSE {<<v>> \o rest : v \in Supplied(ps[i]), rest \in ArgsFrom(ps, i + 1, k - 1)})

\* the calls of the constructor of a class: parameter -> value
Args(cls) ==
    LET ps == Params(cls)
    IN  {[p \in Range(ps) |-> vals[CHOOSE i \in DOMAIN ps : ps[i] = p]] :
            vals \in ArgsFrom(ps, 1, MaxSupplied)}

\* the GTK widget right after Gtk.<Class>.__init__(self): nothing shown, no
\* expand flag set explicitly, fill alignment, no name, tooltip, class or size
NativeWidget ==
    [visible |-> "False", hexpand |-> "False", hexpand_set |-> "False",
     vexpand |-> "False", vexpand_set |-> "False", halign |-> "fill", valign |-> "fill",
     name |-> "None", tooltip_text |-> "None", tooltip_markup |-> "None",
     classes |-> {}, size_request |-> "-1", style_provider |-> "None",
     text |-> "", placeholder |-> "None", max_length |-> "0",
     editable |-> "True", visibility |-> "True", label |-> "None", default_size |-> "-1"]

\* fabric.utils.helpers.get_enum_member(Gtk.Align, value, {}, Gtk.Align.BASELINE)
get_enum_member_Align(value) ==
    CASE value = "Gtk.Align.FILL" -> "fill"
      [] value \in {"fill", "start", "end", "center", "baseline"} -> value
      [] OTHER -> "baseline"

\* str.split() of a class name argument, or the items of an iterable
class_names(value) == IF value \in {"()", ""} THEN {} ELSE {value}

\* what a native setter does to the GTK widget
native_set(n, setter, value) ==
    CASE setter = "set_name" -> [n EXCEPT !.name = value]
      [] setter = "set_tooltip_text" -> [n EXCEPT !.tooltip_text = value]
      [] setter = "set_tooltip_markup" -> [n EXCEPT !.tooltip_markup = value]
      [] setter = "set_valign" -> [n EXCEPT !.valign = value]
      [] setter = "set_halign" -> [n EXCEPT !.halign = value]
      [] setter = "set_vexpand" -> [n EXCEPT !.vexpand = value, !.vexpand_set = "True"]
      [] setter = "set_hexpand" -> [n EXCEPT !.hexpand = value, !.hexpand_set = "True"]
      [] setter = "set_size_request" -> [n EXCEPT !.size_request = value]
      [] setter = "add_class" -> [n EXCEPT !.classes = @ \cup {value}]
      [] setter = "add_provider" -> [n EXCEPT !.style_provider = value]
      [] setter \in {"show", "show_all"} -> [n EXCEPT !.visible = "True"]
      [] setter = "set_text" -> [n EXCEPT !.text = value]
      [] setter = "set_placeholder_text" -> [n EXCEPT !.placeholder = value]
      [] setter = "set_max_length" -> [n EXCEPT !.max_length = value]
      [] setter = "set_editable" -> [n EXCEPT !.editable = value]
      [] setter = "set_visibility" -> [n EXCEPT !.visibility = value]
      [] setter = "set_label" -> [n EXCEPT !.label = value]
      [] setter = "set_default_size" -> [n EXCEPT !.default_size = value]

\* self.<setter>(value)
call(w, setter, value) ==
    [w EXCEPT !.calls = Append(@, <<setter, value>>),
              !.native = native_set(@, setter, value)]

\* self.<setter>(value) if cond else None
call_if(cond, w, setter, value) == IF cond THEN call(w, setter, value) ELSE w

\* add_style_class(class_name)
Widget_add_style_class(w, class_name) ==
    LET names == class_names(class_name)
    IN  IF names = {} THEN w ELSE call(w, "add_class", CHOOSE c \in names : TRUE)

\* set_style(style): a new provider with the style is added
Widget_set_style(w, style) == call(w, "add_provider", style)

\* the end of a Widget.__init__ that shows nothing
Widget_show_never(w, a) == w

\* the end of Widget.__init__: show_all() if all_visible, else show() if visible
Widget_show(w, a) ==
    IF a.all_visible = "True" THEN call(w, "show_all", "")
    ELSE IF a.visible = "True" THEN call(w, "show", "")
    ELSE w

\* Widget.__init__ with the arguments a
Widget_init(w, a) ==
    LET w1 == call_if(a.name # "None", w, "set_name", a.name)
        w2 == call_if(a.tooltip_text # "None", w1, "set_tooltip_text", a.tooltip_text)
        w3 == call_if(a.tooltip_markup # "None", w2, "set_tooltip_markup", a.tooltip_markup)
        w4 == call_if(truthy(a.v_align), w3, "set_valign", get_enum_member_Align(a.v_align))
        w5 == call_if(truthy(a.h_align), w4, "set_halign", get_enum_member_Align(a.h_align))
        w6 == call(w5, "set_vexpand", a.v_expand)
        w7 == call(w6, "set_hexpand", a.h_expand)
        w8 == call_if(a.size # "None", w7, "set_size_request", a.size)
        w9 == IF truthy(a.style_classes) THEN Widget_add_style_class(w8, a.style_classes) ELSE w8
        w10 == IF truthy(a.style) THEN Widget_set_style(w9, a.style) ELSE w9
    IN  Widget_show(w10, a)

\* fabric.widgets.container.Container.__init__: Widget.__init__ with the same
\* arguments (no child is given here)
Container_init(w, a) == Widget_init(w, a)

\* an Entry.__init__ that passes max_length on only when it is not 0
Entry_init_skips_default(w, a) ==
    LET w0 == Widget_init(w, a)
        w1 == call_if(a.text # "None", w0, "set_text", a.text)
        w2 == call_if(a.placeholder # "None", w1, "set_placeholder_text", a.placeholder)
        w3 == call_if(a.max_length # "0", w2, "set_max_length", a.max_length)
        w4 == call(w3, "set_editable", a.editable)
    IN  call(w4, "set_visibility", negate(a.password))

\* Entry.__init__
Entry_init(w, a) ==
    LET w0 == Widget_init(w, a)
        w1 == call_if(a.text # "None", w0, "set_text", a.text)
        w2 == call_if(a.placeholder # "None", w1, "set_placeholder_text", a.placeholder)
        w3 == call(w2, "set_max_length", a.max_length)
        w4 == call(w3, "set_editable", a.editable)
    IN  call(w4, "set_visibility", negate(a.password))

\* Fixed.__init__ with no children
Fixed_init(w, a) == Widget_init(w, a)

\* Button.__init__ with no image and no child
Button_init(w, a) ==
    LET w0 == Container_init(w, a)
    IN  call_if(truthy(a.label), w0, "set_label", a.label)

\* EventBox.__init__ with no child and no events
EventBox_init(w, a) == Container_init(w, a)

\* Window.__init__ with no child: Container.__init__ is given no size
Window_init(w, a) ==
    LET w0 == Container_init(w, [a EXCEPT !.size = "None"])
    IN  call_if(a.size # "None", w0, "set_default_size", a.size)

construct(cls, w, a) ==
    CASE cls = "Widget" -> Widget_init(w, a)
      [] cls = "Entry" -> Entry_init(w, a)
      [] cls = "Fixed" -> Fixed_init(w, a)
      [] cls = "Button" -> Button_init(w, a)
      [] cls = "EventBox" -> EventBox_init(w, a)
      [] cls = "Window" -> Window_init(w, a)

\* the arguments of a call that passes nothing
NoArgs(cls) == [p \in Range(Params(cls)) |-> Default(p)]

InitBuilt ==
    IF widget = "Gtk"
    THEN \E cls \in WidgetClasses : \E a \in Args(cls) :
            built = [cls |-> cls, args |-> a, done |-> FALSE,
                     native |-> NativeWidget, calls |-> <<>>]
    ELSE built = [cls |-> "Widget", args |-> NoArgs("Widget"), done |-> FALSE,
                  native |-> NativeWidget, calls |-> <<>>]

\* Class(**args): the constructor runs on the new GTK widget
Construct ==
    /\ widget = "Gtk"
    /\ ~built.done
    /\ built' = [construct(built.cls, built, built.args) EXCEPT !.done = TRUE]
    /\ last' = Op("construct")
    /\ UNCHANGED <<widget, ctor, sty, en, ro, btn, hyprvars, winvars, wl, setvars>>

\* --------------------------------------------------------- Widget.set_style
\* sty.providers are the Gtk.CssProvider objects attached to the widget's style
\* context, each [id, css]; sty.style_provider is the id in _style_provider
\* (NoProvider for None), sty.made the number of providers created so far.
\* The css of a provider is [text, wrapped, compiled]: the style passed in,
\* whether it was put into `* { ... }`, whether compile_css went over it.

StyleTexts == {"color: red;", "* { color: red; }", "* { color: red;", "color: red; }"}

\* "{" in style
has_open_bracket(style) == style \in {"* { color: red; }", "* { color: red;"}

\* "}" in style
has_close_bracket(style) == style \in {"* { color: red; }", "color: red; }"}

\* _style_provider is None
NoProvider == 0

\* the condition of the conditional expression of set_style: `and` binds
\* tighter than `or`
wraps(style, add_brackets) ==
    ~has_open_bracket(style) \/ (~has_close_bracket(style) /\ add_brackets = TRUE)

\* Widget.set_style(style, compile, append, add_brackets)
set_style(w, style, compile, append, add_brackets) ==
    LET css == [text |-> style, wrapped |-> wraps(style, add_brackets), compiled |-> compile]
        kept == IF w.style_provider # NoProvider /\ append = FALSE
                THEN {q \in w.providers : q.id # w.style_provider}
                ELSE w.providers
        id  == w.made + 1
    IN  [providers |-> kept \cup {[id |-> id, css |-> css]},
         style_provider |-> id, made |-> id]

\* a widget built with no style
InitStyle == sty = [providers |-> {}, style_provider |-> NoProvider, made |-> 0]

\* widget.set_style(style, compile, append, add_brackets)
SetStyle ==
    \E style \in StyleTexts, compile \in BOOLEAN, append \in BOOLEAN, add_brackets \in BOOLEAN :
        /\ widget = "Style"
        /\ sty.made < MaxStyleCalls
        /\ sty' = set_style(sty, style, compile, append, add_brackets)
        /\ last' = [op |-> "set_style", flag |-> append,
                    num |-> IF add_brackets THEN 1 ELSE 0,
                    data |-> <<style>>, raised |-> "none"]
        /\ UNCHANGED <<widget, ctor, built, en, ro, btn, hyprvars, winvars, wl, setvars>>

\* ---------------------------------------------------- enum-valued properties
\* A value assigned to one of these properties is [kind, name]: a member of
\* the enum (its name) or a string.  en holds the fields and the state of the
\* native objects the setters write: layer is _layer and shell_layer what
\* GtkLayerShell.set_layer got, exclusivity is _exclusivity and exclusive_zone
\* the zone setting of the layer shell, keyboard_mode the mode of the layer
\* shell, line_style is _line_style, halign and valign the alignment of the
\* Gtk widget.

Member(name) == [kind |-> "member", name |-> name]

Str(name) == [kind |-> "str", name |-> name]

\* the members of each enum
EnumMembers ==
    [Layer |-> {"BACKGROUND", "BOTTOM", "TOP", "OVERLAY", "ENTRY_NUMBER"},
     WaylandWindowExclusivity |-> {"NONE", "NORMAL", "AUTO"},
     KeyboardMode |-> {"NONE", "EXCLUSIVE", "ON_DEMAND", "ENTRY_NUMBER"},
     LineCap |-> {"BUTT", "ROUND", "SQUARE"},
     Align |-> {"FILL", "START", "END", "CENTER", "BASELINE"}]

\* the strings assigned: names the setters' type hints list, and strings that
\* name nothing
EnumStrings ==
    {"background", "bottom", "top", "overlay", "none", "normal", "auto", "exclusive",
     "on-demand", "butt", "round", "square", "fill", "center", "baseline", "bogus", ""}

\* the member name a string stands for: upper case, "-" as "_"
member_name(string) ==
    CASE string = "background" -> "BACKGROUND" [] string = "bottom" -> "BOTTOM"
      [] string = "top" -> "TOP" [] string = "overlay" -> "OVERLAY"
      [] string = "none" -> "NONE" [] string = "normal" -> "NORMAL"
      [] string = "auto" -> "AUTO" [] string = "exclusive" -> "EXCLUSIVE"
      [] string = "on-demand" -> "ON_DEMAND" [] string = "butt" -> "BUTT"
      [] string = "round" -> "ROUND" [] string = "square" -> "SQUARE"
      [] string = "fill" -> "FILL" [] string = "start" -> "START"
      [] string = "end" -> "END" [] string = "center" -> "CENTER"
      [] string = "baseline" -> "BASELINE" [] string = "bogus" -> "BOGUS"
      [] OTHER -> ""

\* fabric.utils.helpers.get_enum_member(enum, value, default=default): a member
\* is returned as it is, a string that names a member gives that member, any
\* other string the default
get_enum_member(enum, value, default) ==
    IF value.kind = "member" THEN value.name
    ELSE IF member_name(value.name) \in EnumMembers[enum] THEN member_name(value.name)
    ELSE default

\* the values assigned to a property of the enum: a few members and strings
EnumValues(enum) ==
    {Member(m) : m \in EnumMembers[enum] \ {"ENTRY_NUMBER", "START", "END"}}
        \cup {Str(x) : x \in {y \in EnumStrings : member_name(y) \in EnumMembers[enum]}}
        \cup {Str("bogus"), Str(""), Str("none")}

\* a layer setter that leaves _layer alone when the string names no layer
layer_setter_keeps_layer(e, value) ==
    LET layer == get_enum_member("Layer", value, e.layer)
    IN  [e EXCEPT !.layer = layer, !.shell_layer = layer]

\* the layer setter
layer_setter(e, value) ==
    LET layer == get_enum_member("Layer", value, "TOP")
    IN  [e EXCEPT !.layer = layer, !.shell_layer = layer]

\* the exclusivity setter
exclusivity_setter(e, value) ==
    LET v == get_enum_member("WaylandWindowExclusivity", value, "NONE")
    IN  [e EXCEPT !.exclusivity = v,
                  !.exclusive_zone = CASE v = "NORMAL" -> "True"
                                       [] v = "AUTO" -> "auto"
                                       [] OTHER -> "False"]

\* the keyboard_mode setter
keyboard_mode_setter(e, value) ==
    [e EXCEPT !.keyboard_mode = get_enum_member("KeyboardMode", value, "NONE")]

\* GtkLayerShell.get_keyboard_interactivity: whether the mode lets the window
\* have the keyboard
get_keyboard_interactivity(e) == e.keyboard_mode # "NONE"

\* the keyboard_mode getter
keyboard_mode_getter(e) ==
    IF get_keyboard_interactivity(e) THEN "EXCLUSIVE" ELSE e.keyboard_mode

\* the line_style setter
line_style_setter(e, line_style) ==
    [e EXCEPT !.line_style = get_enum_member("LineCap", line_style, "BUTT")]

\* the v_align setter
v_align_setter(e, value) ==
    [e EXCEPT !.valign = get_enum_member("Align", value, "BASELINE")]

\* the h_align setter
h_align_setter(e, value) ==
    [e EXCEPT !.halign = get_enum_member("Align", value, "BASELINE")]

\* WaylandWindow(), CircularProgressBar() and Widget() built with the defaults
\* of their parameters: the fields, then the setters with the defaults; h_align
\* and v_align are None and the Gtk widget keeps its alignment
InitEnums ==
    en = line_style_setter(
             exclusivity_setter(
                 keyboard_mode_setter(
                     layer_setter(
                         [layer |-> "ENTRY_NUMBER", shell_layer |-> "TOP",
                          exclusivity |-> "NONE", exclusive_zone |-> "False",
                          keyboard_mode |-> "NONE", line_style |-> "ROUND",
                          halign |-> "FILL", valign |-> "FILL"],
                         Member("TOP")),
                     Member("NONE")),
                 Member("NONE")),
             Member("ROUND"))

\* what an assignment leaves in last
OpEnum(op, value) ==
    [op |-> op, flag |-> (value.kind = "str"), num |-> 0,
     data |-> <<value.name>>, raised |-> "none"]

\* window.layer = value
SetLayer ==
    \E value \in EnumValues("Layer") :
        /\ widget = "Enums"
        /\ en' = layer_setter(en, value)
        /\ last' = OpEnum("layer", value)
        /\ UNCHANGED <<widget, ctor, built, sty, ro, btn, hyprvars, winvars, wl, setvars>>

\* window.exclusivity = value
SetExclusivity ==
    \E value \in EnumValues("WaylandWindowExclusivity") :
        /\ widget = "Enums"
        /\ en' = exclusivity_setter(en, value)
        /\ last' = OpEnum("exclusivity", value)
        /\ UNCHANGED <<widget, ctor, built, sty, ro, btn, hyprvars, winvars, wl, setvars>>

\* window.keyboard_mode = value
SetKeyboardMode ==
    \E value \in EnumValues("KeyboardMode") :
        /\ widget = "Enums"
        /\ en' = keyboard_mode_setter(en, value)
        /\ last' = OpEnum("keyboard_mode", value)
        /\ UNCHANGED <<widget, ctor, built, sty, ro, btn, hyprvars, winvars, wl, setvars>>

\* bar.line_style = value
SetLineStyle ==
    \E value \in EnumValues("LineCap") :
        /\ widget = "Enums"
        /\ en' = line_style_setter(en, value)
        /\ last' = OpEnum("line_style", value)
        /\ UNCHANGED <<widget, ctor, built, sty, ro, btn, hyprvars, winvars, wl, setvars>>

\* widget.v_align = value
SetVAlign ==
    \E value \in EnumValues("Align") :
        /\ widget = "Enums"
        /\ en' = v_align_setter(en, value)
        /\ last' = OpEnum("v_align", value)
        /\ UNCHANGED <<widget, ctor, built, sty, ro, btn, hyprvars, winvars, wl, setvars>>

\* widget.h_align = value
SetHAlign ==
    \E value \in EnumValues("Align") :
        /\ widget = "Enums"
        /\ en' = h_align_setter(en, value)
        /\ last' = OpEnum("h_align", value)
        /\ UNCHANGED <<widget, ctor, built, sty, ro, btn, hyprvars, winvars, wl, setvars>>

\* ------------------------------------------------------- declared properties
\* ro is one property of a WorkspaceButton, an AudioStream or an Audio service:
\* its name and the value its getter returns.

\* the access flags each property is declared with
PropertyFlags ==
    [x \in {"WorkspaceButton.id", "AudioStream.icon_name", "AudioStream.id",
            "AudioStream.name", "AudioStream.description", "AudioStream.application_id",
            "AudioStream.state", "AudioStream.stream", "AudioStream.type",
            "Audio.speaker", "Audio.speakers", "Audio.microphone", "Audio.microphones",
            "Audio.applications", "Audio.recorders", "Audio.state"} |-> "readable"]
    @@ [x \in {"WorkspaceButton.active", "AudioStream.muted", "Audio.max_volume"} |-> "read-write"]

\* the properties whose getter reads the mixer or a field the mixer's signals
\* update
MixerBacked ==
    {x \in DOMAIN PropertyFlags : x \notin {"WorkspaceButton.id", "WorkspaceButton.active",
                                            "AudioStream.stream", "Audio.max_volume"}}

\* the values of a property, whatever its type
PropertyValues == {0, 1, 2}

\* a descriptor that lets every write through
Property_set_raises_never(flags) == FALSE

\* fabric.core.service.Property: whether a write to a property declared with
\* these flags fails with the access error
Property_set_raises(flags) == flags = "readable"

\* obj.prop = value
Property_set(r, value) ==
    IF Property_set_raises(PropertyFlags[r.prop]) THEN r ELSE [r EXCEPT !.value = value]

InitProperty ==
    IF widget = "Property"
    THEN \E x \in DOMAIN PropertyFlags, v \in PropertyValues : ro = [prop |-> x, value |-> v]
    ELSE ro = [prop |-> "WorkspaceButton.id", value |-> 1]

\* obj.prop = value
WriteProperty ==
    \E value \in PropertyValues :
        /\ widget = "Property"
        /\ ro' = Property_set(ro, value)
        /\ last' = [op |-> "write", flag |-> FALSE, num |-> value, data |-> <<ro.prop>>,
                    raised |-> IF Property_set_raises(PropertyFlags[ro.prop])
                               THEN "access error" ELSE "none"]
        /\ UNCHANGED <<widget, ctor, built, sty, en, btn, hyprvars, winvars, wl, setvars>>

\* the mixer reports a change of what the property shows
MixerChange ==
    \E value \in PropertyValues :
        /\ widget = "Property"
        /\ ro.prop \in MixerBacked
        /\ ro' = [ro EXCEPT !.value = value]
        /\ last' = [op |-> "mixer", flag |-> FALSE, num |-> value, data |-> <<ro.prop>>,
                    raised |-> "none"]
        /\ UNCHANGED <<widget, ctor, built, sty, en, btn, hyprvars, winvars, wl, setvars>>

\* ------------------------------------------------------------ specifications

vars == <<widget, last, btn, hyprvars, winvars, wl, setvars, ctorvars>>

SetterWidgets == {"CircularProgressBar", "DateTime", "AudioStream", "WorkspaceButton"}

Widgets ==
    {"WorkspaceButton", "Window", "WaylandWindow", "Constructor", "Gtk", "Style", "Enums", "Property"}
        \cup HyprWidgets \cup SetterWidgets

Init ==
    /\ widget \in Widgets
    /\ InitButton
    /\ InitHypr
    /\ InitWindow
    /\ InitWayland
    /\ InitCpb
    /\ InitDateTime
    /\ InitAudio
    /\ InitCtor
    /\ InitBuilt
    /\ InitStyle
    /\ InitEnums
    /\ InitProperty

NextButton ==
    \/ SetActive
    \/ SetUrgent
    \/ SetEmpty

\* a WorkspaceButton and assignments to its three flags
InitButtonOnly == Init /\ widget = "WorkspaceButton"

SpecButton == InitButtonOnly /\ [][NextButton]_vars

NextHypr ==
    \/ on_ready
    \/ on_workspace
    \/ on_createworkspace
    \/ on_destroyworkspace
    \/ on_urgent
    \/ on_closewindow
    \/ on_activewindow
    \/ on_activelayout

\* the three Hyprland widgets and the events of the connection
InitHyprOnly == Init /\ widget \in HyprWidgets

SpecHypr == InitHyprOnly /\ [][NextHypr]_vars

NextWindow ==
    \/ add_keybinding
    \/ remove_keybinding
    \/ do_handle_key_press_event

\* a Window, its key bindings and key presses
InitWindowOnly == Init /\ widget = "Window"

SpecWindow == InitWindowOnly /\ [][NextWindow]_vars

NextWayland ==
    \/ SetAnchorList
    \/ SetAnchorString

\* a WaylandWindow and assignments to its anchor
InitWaylandOnly == Init /\ widget = "WaylandWindow"

SpecWayland == InitWaylandOnly /\ [][NextWayland]_vars

NextSetters ==
    \/ SetActive
    \/ SetUrgent
    \/ SetEmpty
    \/ SetValue
    \/ SetMinValue
    \/ SetMaxValue
    \/ SetFormatters
    \/ SetInterval
    \/ do_handle_press
    \/ do_handle_scroll
    \/ SetVolume
    \/ SetMaxVolume
    \/ NotifyVolume

\* one of the widgets with checked property setters, and assignments to them
InitSettersOnly == Init /\ widget \in SetterWidgets

SpecSetters == InitSettersOnly /\ [][NextSetters]_vars

NextCtor == ConstructorStep

\* one constructor call, statement by statement
InitCtorOnly == Init /\ widget = "Constructor"

SpecCtor == InitCtorOnly /\ [][NextCtor]_vars

NextBuilt == Construct

\* one widget built over its GTK widget
InitBuiltOnly == Init /\ widget = "Gtk"

SpecBuilt == InitBuiltOnly /\ [][NextBuilt]_vars

NextStyle == SetStyle

InitStyleOnly == Init /\ widget = "Style"

\* one widget and calls of its set_style
SpecStyle == InitStyleOnly /\ [][NextStyle]_vars

NextEnums ==
    \/ SetLayer
    \/ SetExclusivity
    \/ SetKeyboardMode
    \/ SetLineStyle
    \/ SetVAlign
    \/ SetHAlign

InitEnumsOnly == Init /\ widget = "Enums"

\* the enum-valued properties and assignments to them
SpecEnums == InitEnumsOnly /\ [][NextEnums]_vars

NextProperty ==
    \/ WriteProperty
    \/ MixerChange

InitPropertyOnly == Init /\ widget = "Property"

\* one declared property, writes to it and changes the mixer reports
SpecProperty == InitPropertyOnly /\ [][NextProperty]_vars

\* ------------------------------------------------------------------- claims

\* C1 (as claimed): a WorkspaceButton is never active and urgent at the same
\* time, whatever sequence of assignments to active, urgent and empty it saw.
C1_NeverActiveAndUrgent == ~(btn.active /\ btn.urgent)

\* C1 (amended): the clearing goes one way.  Right after `active = True` the
\* button is not urgent; right after any assignment to urgent the button is
\* urgent exactly as assigned, and an assignment to urgent or empty leaves
\* active as it was (so `urgent = True` on an active button leaves it both).
C1_ActiveClearsUrgent ==
    /\ (last.op = "active" /\ last.flag) => (btn.active /\ ~btn.urgent)
    /\ (last.op = "urgent") => (btn.urgent = last.flag)

\* C1 witness: `active = True` was assigned to a button that had been urgent
\* (its label still shows the flags the setter left)
C1_Witness == last.op = "active" /\ last.flag /\ btn.active /\ ~btn.urgent

\* what C2 calls the visible state of the Workspaces widget
WorkspacesVisible(w) ==
    [active_workspace |-> w.active_workspace, buttons |-> w.buttons,
     children |-> w.children, heap |-> w.heap]

\* an event whose data is shorter than its handler's minimum
IsShortEvent(l) ==
    \/ /\ l.op \in {"workspace", "createworkspace", "destroyworkspace", "urgent", "closewindow"}
       /\ Len(l.data) < 1
    \/ /\ l.op \in {"activewindow", "activelayout"}
       /\ Len(l.data) < 2

\* C2: an event whose data has fewer fields than its handler's minimum is a
\* no-op: the active workspace id, the button table, the container's children,
\* every button's flags and the labels of ActiveWindow and Language are
\* unchanged, and the handler sends no command to the compositor.
C2_ShortEventIsNoOp ==
    [][IsShortEvent(last)' =>
          /\ WorkspacesVisible(ws)' = WorkspacesVisible(ws)
          /\ aw' = aw
          /\ lang' = lang
          /\ sent' = <<>>]_vars

\* C2 witness: a short workspace event reached a Workspaces widget that is
\* showing buttons and has an active workspace
C2_Witness ==
    /\ last.op = "workspace"
    /\ Len(last.data) = 0
    /\ ws.children # <<>>
    /\ ws.active_workspace # NoneWs

\* C3 (as claimed): buttons_factory is called for a workspace id only if no
\* button of the list of predefined buttons has that id.
C3_FactoryOnlyForUnlistedIds ==
    \A id \in ws.factory_calls : id \notin Range(ws.buttons_preset)

\* C4 (as claimed): after remove_keybinding(cb) with a callback cb no pair
\* whose callback is cb remains under any keybind string.
C4_CallbackGone ==
    (last.op = "remove_keybinding" /\ last.data[1] = "callable") =>
        \A k \in DOMAIN keybinding_handlers :
            \A i \in 1..Len(keybinding_handlers[k]) :
                keybinding_handlers[k][i][1] # last.data[2]

\* the word that names each edge in an anchor string
C5_EdgeName == [e \in Edges |->
    CASE e = "TOP" -> "top" [] e = "RIGHT" -> "right" [] e = "BOTTOM" -> "bottom" [] e = "LEFT" -> "left"]

\* the string half of C5 alone
C5_StringAnchorsNamedEdges ==
    (last.op = "anchor_str") =>
        \A e \in Edges :
            wl.anchored[e] <=> \E i \in DOMAIN last.data : lower(last.data[i]) = C5_EdgeName[e]

\* C5 (as claimed): after assigning a list or tuple of edges E the getter
\* returns exactly the edges of E, in TOP, RIGHT, BOTTOM, LEFT order; after
\* assigning a string exactly the edges it names are anchored.
C5_AnchorRoundTrip ==
    /\ (last.op = "anchor_list" /\ Range(last.data) \subseteq Edges) =>
           anchor_getter(wl) = SelectSeq(EdgeOrder, LAMBDA e : e \in Range(last.data))
    /\ (last.op = "anchor_str") =>
           \A e \in Edges :
               wl.anchored[e] <=> \E i \in DOMAIN last.data : lower(last.data[i]) = C5_EdgeName[e]

\* C6 (as claimed): the value of a CircularProgressBar stays within its
\* bounds, min_value <= value <= max_value, after construction and after every
\* assignment to value, min_value and max_value.
C6_ValueWithinBounds ==
    widget = "CircularProgressBar" =>
        (cpb.min_value <= cpb.value /\ cpb.value <= cpb.max_value)

C7_Assignment ==
    /\ last'.op = "max_value" =>
           IF last'.num = 0
           THEN last'.raised = "ValueError" /\ cpb' = cpb
           ELSE last'.raised = "none" /\ cpb'.max_value = last'.num
    /\ last'.op = "value" => last'.raised = "none"
    /\ last'.op = "min_value" =>
           /\ last'.raised = "none"
           /\ cpb.min_value <= cpb.max_value =>
                  (cpb.min_value <= cpb'.min_value /\ cpb'.min_value <= cpb.max_value)
    /\ last'.op = "formatters" =>
           /\ last'.raised = "none"
           /\ Len(dt'.formatters) >= 1
           /\ (last'.flag /\ last'.data = <<>>) => dt'.formatters = DefaultFormatters
    /\ last'.op = "interval" =>
           /\ dt'.interval = last'.num
           /\ last'.raised = (IF dt.current_index < Len(dt.formatters) THEN "none" ELSE "IndexError")
    /\ last'.op = "volume" =>
           /\ last'.raised = "none"
           /\ audio'.stream_volume =
                  (Max(0, Min(last'.num, audio.max_volume)) * VolMaxNorm) \div 100
    /\ last'.op \in {"active", "urgent", "empty"} => last'.raised = "none"

C8_Positions(kind) == {i \in DOMAIN ctor.trace : ctor.trace[i][1] = kind}

\* the properties whose setters ran, in the order they ran
C8_SettersRun ==
    LET sets == SelectSeq(ctor.trace, LAMBDA e : e[1] = "set")
    IN  [i \in DOMAIN sets |-> sets[i][2]]

\* the parameters of the signature that were given, in declared order
C8_Supplied ==
    SelectSeq(DeclaredOrder(ctor.cls), LAMBDA p : p = "monitor" => ctor.args.monitor)

\* C8 (as claimed): when a constructor has returned, the setter of each
\* supplied parameter has run exactly once, in the order of the signature,
\* after base-class initialization and before any signal handler was connected.
C8_SettersOnceInDeclaredOrder ==
    Constructed(ctor) =>
        /\ SelectSeq(C8_SettersRun, LAMBDA p : p \in Range(DeclaredOrder(ctor.cls))) = C8_Supplied
        /\ \A i \in C8_Positions("set") :
               /\ \A j \in C8_Positions("base") : j < i
               /\ \A j \in C8_Positions("connect") : i < j

\* C8 (amended): CircularProgressBar and DateTime run their setters once each in
\* declared order, after base initialization and before connecting handlers;
\* WorkspaceButton runs active, urgent, empty after base initialization;
\* WaylandWindow connects notify::title first and then runs monitor (if given),
\* layer, anchor, margin, keyboard_mode, exclusivity, pass_through, and
\* pass_through once more when the constructor shows the window.
C8_SetterOrderOfEachClass ==
    Constructed(ctor) =>
        /\ \A i \in C8_Positions("set") : \A j \in C8_Positions("base") : j < i
        /\ ctor.cls \in {"CircularProgressBar", "DateTime"} =>
               /\ C8_SettersRun = DeclaredOrder(ctor.cls)
               /\ \A i \in C8_Positions("set") : \A j \in C8_Positions("connect") : i < j
        /\ ctor.cls = "WorkspaceButton" =>
               /\ C8_SettersRun = <<"active", "urgent", "empty">>
               /\ C8_Positions("connect") = {}
        /\ ctor.cls = "WaylandWindow" =>
               /\ C8_SettersRun =
                      (IF ctor.args.monitor THEN <<"monitor">> ELSE <<>>)
                      \o <<"layer", "anchor", "margin", "keyboard_mode", "exclusivity", "pass_through">>
                      \o (IF ctor.args.visible \/ ctor.args.all_visible
                          THEN <<"pass_through">> ELSE <<>>)
               /\ \A i \in C8_Positions("set") : \A j \in C8_Positions("connect") : j < i

\* C8: a WaylandWindow given a monitor has been constructed and shown
C8_Witness ==
    /\ Constructed(ctor)
    /\ ctor.cls = "WaylandWindow"
    /\ ctor.args.monitor
    /\ ctor.args.visible

\* C9 (as claimed): a Widget, Entry, Button, Fixed or EventBox built with no
\* optional argument has the state of the GTK widget built with no customization.
C9_NoArgsEqualsNative ==
    (built.done /\ built.cls # "Window" /\ built.args = NoArgs(built.cls)) =>
        built.native = NativeWidget

\* C9 (amended): built with no optional argument, the widget differs from the
\* GTK widget in three things: it is visible (visible defaults to True and the
\* constructor shows it) and its hexpand and vexpand are set explicitly, to
\* False; name, tooltip, alignment, style classes, size request and the Entry's
\* max length, editable and text visibility are the GTK widget's.
C9_NoArgsShownAndExpandSet ==
    (built.done /\ built.cls # "Window" /\ built.args = NoArgs(built.cls)) =>
        built.native = [NativeWidget EXCEPT !.visible = "True",
                                            !.hexpand_set = "True",
                                            !.vexpand_set = "True"]

\* C9: an Entry has been built with no argument
C9_Witness == built.done /\ built.cls = "Entry" /\ built.args = NoArgs("Entry")

\* the parameters C10 lists
C10_Params ==
    {"name", "tooltip_text", "tooltip_markup", "h_align", "v_align", "h_expand", "v_expand",
     "size", "style", "style_classes", "text", "placeholder", "max_length", "editable", "password"}

\* the native setter a constructor applies a parameter with
C10_SetterOf(cls, p) ==
    CASE p = "name" -> "set_name"
      [] p = "tooltip_text" -> "set_tooltip_text"
      [] p = "tooltip_markup" -> "set_tooltip_markup"
      [] p = "h_align" -> "set_halign"
      [] p = "v_align" -> "set_valign"
      [] p = "h_expand" -> "set_hexpand"
      [] p = "v_expand" -> "set_vexpand"
      [] p = "size" -> IF cls = "Window" THEN "set_default_size" ELSE "set_size_request"
      [] p = "style" -> "add_provider"
      [] p = "style_classes" -> "add_class"
      [] p = "text" -> "set_text"
      [] p = "placeholder" -> "set_placeholder_text"
      [] p = "max_length" -> "set_max_length"
      [] p = "editable" -> "set_editable"
      [] p = "password" -> "set_visibility"

\* whether the constructor called the setter of a parameter
C10_Called(p) ==
    \E i \in DOMAIN built.calls : built.calls[i][1] = C10_SetterOf(built.cls, p)

\* C10 (as claimed): the native setter of a parameter is called only when the
\* caller passed a value that is neither None nor the default.
C10_SetterOnlyForSuppliedValue ==
    built.done =>
        \A p \in C10_Params \cap DOMAIN built.args :
            C10_Called(p) => built.args[p] \notin {"None", Default(p)}

\* C10 (amended): the setters of name, tooltip_text, tooltip_markup, size, text
\* and placeholder are called exactly when the value is not None; those of
\* h_align, v_align, style and style_classes exactly when the value is truthy;
\* those of h_expand, v_expand, max_length, editable and password (as text
\* visibility) are called in every construction, with the default when the
\* caller passed nothing.
C10_SetterPerParameterRule ==
    built.done =>
        \A p \in C10_Params \cap DOMAIN built.args :
            C10_Called(p) <=>
                CASE p \in {"name", "tooltip_text", "tooltip_markup", "size", "text", "placeholder"} ->
                        built.args[p] # "None"
                  [] p \in {"h_align", "v_align", "style", "style_classes"} ->
                        truthy(built.args[p])
                  [] OTHER -> TRUE

\* C10: an Entry was built with max_length left out and set_max_length(0) was called
C10_Witness ==
    /\ built.done
    /\ built.cls = "Entry"
    /\ built.args.max_length = Default("max_length")
    /\ <<"set_max_length", "0">> \in Range(built.calls)

\* what stream.volume = v does, the state before it unprimed
C11_Assignment ==
    last'.op = "volume" =>
        /\ audio'.stream_volume =
               (Min(Max(last'.num, 0), audio.max_volume) * VolMaxNorm) \div 100
        /\ audio'.stream_volume >= 0
        /\ audio'.stream_volume * 100 <= audio.max_volume * VolMaxNorm
        /\ audio'.log = <<"set_volume", "push_volume", "changed">>

\* C11: stream.volume = v pushes min(max(v, 0), max_volume), scaled by
\* vol_max_norm / 100 and truncated, to the mixer stream, never a volume above
\* max_volume or below 0, and then emits changed.
C11_VolumePushedClamped == [][C11_Assignment]_vars

\* C11: a volume above the limit was assigned and the limit was pushed
C11_Witness ==
    /\ last.op = "volume"
    /\ last.num > audio.max_volume
    /\ audio.stream_volume = (audio.max_volume * VolMaxNorm) \div 100
    /\ audio.log = <<"set_volume", "push_volume", "changed">>

\* C12 (as claimed): the volume getter never returns more than the parent's
\* max_volume (stream_volume / vol_max_norm * 100 <= max_volume).
C12_GetterWithinMaxVolume ==
    widget = "AudioStream" => audio.stream_volume * 100 <= audio.max_volume * VolMaxNorm

\* a bar constructed with min_value = a and max_value = b, a <= b, reports them
C13_Constructed ==
    (widget = "CircularProgressBar" /\ last.op = "init" /\ last.data[2] <= last.data[3]) =>
        (cpb.min_value = last.data[2] /\ cpb.max_value = last.data[3])

\* after min_value = v with v <= max_value (which the assignment leaves as it
\* was) the getter returns v
C13_Set ==
    (last.op = "min_value" /\ last.num <= cpb.max_value) => cpb.min_value = last.num

\* C13 (as claimed): min_value reads back the value just assigned, for every
\* v <= max_value (v below the current min_value included), and a bar built
\* with min_value = a <= max_value = b reports min_value = a and max_value = b.
C13_MinValueRoundTrip == C13_Constructed /\ C13_Set

\* C14 (as claimed): after set_style with append=False the provider that call
\* created is the only provider set_style has attached to the widget.
C14_AppendFalseLeavesOneProvider ==
    (last.op = "set_style" /\ last.flag = FALSE) =>
        \A q \in sty.providers : q.id = sty.style_provider

\* the css of the provider the last set_style call created
C15_Applied == (CHOOSE q \in sty.providers : q.id = sty.style_provider).css

\* C15 (as claimed): set_style wraps the style into `* { ... }` only when
\* add_brackets is True and a bracket is missing; with add_brackets=False the
\* style is applied as given.
C15_WrapsOnlyWhenAsked ==
    last.op = "set_style" =>
        /\ C15_Applied.text = last.data[1]
        /\ C15_Applied.wrapped <=>
               (last.num = 1 /\ (~has_open_bracket(last.data[1]) \/ ~has_close_bracket(last.data[1])))

\* the list l without its i-th item
C16_Without(l, i) == SubSeq(l, 1, i - 1) \o SubSeq(l, i + 1, Len(l))

\* the remove_keybinding step of C16 for a handler id: some binding has the id,
\* and afterwards that one binding is gone and every other is where it was
C16_ById ==
    (/\ last'.op = "remove_keybinding"
     /\ last'.data[1] = "int"
     /\ \E k \in DOMAIN keybinding_handlers :
            \E i \in 1..Len(keybinding_handlers[k]) :
                keybinding_handlers[k][i][2] = last'.num)
    => /\ \E k \in DOMAIN keybinding_handlers :
              \E i \in 1..Len(keybinding_handlers[k]) :
                  /\ keybinding_handlers[k][i][2] = last'.num
                  /\ keybinding_handlers' =
                         drop_empty([keybinding_handlers EXCEPT ![k] = C16_Without(@, i)])
       /\ DOMAIN keybinding_handlers' # {} => key_press_handler' # 0

\* the remove_keybinding step of C16 for a keybind string: the entry of the
\* string is gone and every other entry is as it was
C16_ByKeybind ==
    (last'.op = "remove_keybinding" /\ last'.data[1] = "str")
    => keybinding_handlers' =
           [k \in (DOMAIN keybinding_handlers) \ {last'.data[2]} |-> keybinding_handlers[k]]

\* C16 (as claimed): remove_keybinding(h) with the id h that add_keybinding
\* returned removes exactly that one binding and leaves every other binding
\* registered and invoked; remove_keybinding("<keybind>") removes all bindings
\* of that keybind string and no other.
C16_RemovesExactlyTheBinding == [][C16_ById /\ C16_ByKeybind]_vars

\* the style class of each state flag of a button
C17_StateClasses == {"active", "urgent", "empty"}

\* the value of the flag a state class stands for
C17_Flag(b, name) ==
    CASE name = "active" -> b.active [] name = "urgent" -> b.urgent [] name = "empty" -> b.empty

\* C17: in every state reachable from the construction of a WorkspaceButton by
\* assignments to active, urgent and empty, each of the style classes "active",
\* "urgent" and "empty" is on the button exactly when its flag is true (a fresh
\* button has, of the three, only "empty").
C17_ClassesMatchFlags ==
    widget = "WorkspaceButton" =>
        /\ \A name \in C17_StateClasses : (name \in btn.classes) <=> (C17_Flag(btn, name) = TRUE)
        /\ last.op = "init" => btn.classes \cap C17_StateClasses = {"empty"}

\* an assignment has taken "empty" away and put "urgent" on
C17_Witness ==
    /\ widget = "WorkspaceButton"
    /\ last.op = "urgent"
    /\ btn.urgent /\ ~btn.empty /\ ~btn.active
    /\ btn.classes \cap C17_StateClasses = {"urgent"}

\* k calls of do_cycle_next in a row
RECURSIVE C18_Nexts(_, _)
C18_Nexts(d, k) == IF k = 0 THEN d ELSE C18_Nexts(do_cycle_next(d), k - 1)

\* whether the step is a left click or a scroll up / a right click or a scroll down
C18_IsNext == (last'.op = "press" /\ last'.num = 1) \/ (last'.op = "scroll" /\ last'.data = <<"UP">>)

C18_IsPrev == (last'.op = "press" /\ last'.num = 3) \/ (last'.op = "scroll" /\ last'.data = <<"DOWN">>)

\* the cycling step of C18, with n formatters and the index i before the input
C18_Cycling ==
    LET n == Len(dt.formatters)
        i == dt.current_index
    IN  /\ C18_IsNext => dt'.current_index = (i + 1) % n
        /\ C18_IsPrev => dt'.current_index = (i - 1) % n
        /\ (C18_IsNext \/ C18_IsPrev) =>
              /\ do_cycle_prev(do_cycle_next(dt)).current_index = i
              /\ do_cycle_next(do_cycle_prev(dt)).current_index = i
              /\ C18_Nexts(dt, n).current_index = i

\* C18 (as claimed): with n formatters and current index i a left click or a
\* scroll up moves to (i + 1) mod n and a right click or a scroll down to
\* (i - 1) mod n; next then prev (or the reverse) restores the index and n
\* nexts in a row return to the starting format.
C18_CyclesModuloN == [][C18_Cycling]_vars

\* the strings each enum-valued property recognises
C19_Recognised ==
    [layer |-> {"background", "bottom", "top", "overlay"},
     exclusivity |-> {"none", "normal", "auto"},
     keyboard_mode |-> {"none", "exclusive", "on-demand"},
     line_style |-> {"butt", "round", "square"},
     v_align |-> {"fill", "start", "end", "center", "baseline"},
     h_align |-> {"fill", "start", "end", "center", "baseline"}]

\* what the getter of each property returns
C19_Getter ==
    [layer |-> en.layer, exclusivity |-> en.exclusivity,
     keyboard_mode |-> keyboard_mode_getter(en), line_style |-> en.line_style,
     v_align |-> en.valign, h_align |-> en.halign]

\* the default each property falls back to
C19_Default ==
    [layer |-> "TOP", exclusivity |-> "NONE", keyboard_mode |-> "NONE",
     line_style |-> "BUTT", v_align |-> "BASELINE", h_align |-> "BASELINE"]

\* C19: assigning a string that names no member to an enum-valued property does
\* not raise and leaves the property at its default: layer at Layer.TOP,
\* exclusivity at NONE, keyboard_mode at KeyboardMode.NONE, line_style at
\* LineCap.BUTT, h_align and v_align at Align.BASELINE.
C19_UnrecognisedStringGivesDefault ==
    (/\ widget = "Enums"
     /\ last.op \in DOMAIN C19_Recognised
     /\ last.flag
     /\ last.data[1] \notin C19_Recognised[last.op])
    => /\ last.raised = "none"
       /\ C19_Getter[last.op] = C19_Default[last.op]
       /\ last.op = "layer" => en.shell_layer = "TOP"
       /\ last.op = "exclusivity" => en.exclusive_zone = "False"

\* "bogus" was assigned to layer and the window is on the top layer
C19_Witness ==
    /\ widget = "Enums"
    /\ last.op = "layer" /\ last.flag /\ last.data = <<"bogus">>
    /\ en.layer = "TOP"
    /\ en.exclusivity = "AUTO"
    /\ en.line_style = "BUTT"

\* the properties C20 lists as declared "readable"
C20_Readable ==
    {"WorkspaceButton.id", "AudioStream.icon_name", "AudioStream.id", "AudioStream.name",
     "AudioStream.description", "AudioStream.application_id", "AudioStream.state",
     "AudioStream.stream", "AudioStream.type", "Audio.speaker", "Audio.speakers",
     "Audio.microphone", "Audio.microphones", "Audio.applications", "Audio.recorders",
     "Audio.state"}

\* the write step of C20
C20_Write ==
    (last'.op = "write" /\ ro.prop \in C20_Readable) =>
        /\ last'.raised = "access error"
        /\ ro' = ro

\* C20: a write to a property declared "readable" fails with an access error
\* and leaves the value its getter returns unchanged.
C20_ReadableRejectsWrites == [][C20_Write]_vars

\* a write of 1 to AudioStream.state failed and the getter still returns 2
C20_Witness ==
    /\ widget = "Property"
    /\ last.op = "write" /\ last.num = 1 /\ last.raised = "access error"
    /\ ro = [prop |-> "AudioStream.state", value |-> 2]

====
